---- MODULE Spec2Model ----
(***************************************************************************)
(* A model of the blob converter: the two conversion functions             *)
(* (ascii_preprocess.py, ascii_preprocess_sequence.py) with their          *)
(* backup-before-overwrite step, the directory frame source, and the       *)
(* temp-directory lifecycle of the Flask service (blob_converter_app.py).  *)
(*                                                                         *)
(* File names are sequences of one-character strings.  A file's content    *)
(* is a record [hdr, body]: hdr is the sequence of header bytes written,   *)
(* body the sequence of blocks written after it.  A block stands for the   *)
(* bytes of one f.write(img.tobytes()) call; consecutive frames of one     *)
(* source are kept as one run [src, lo, hi, n] (frames lo..hi of source    *)
(* src, n bytes each), which is the same sequence of blocks written more   *)
(* compactly.                                                              *)
(***************************************************************************)
EXTENDS Integers, Sequences, FiniteSets, TLC

(***************************** bounds **************************************)
\* conversion calls made one after another in one behaviour of Spec
MaxCalls == 4
\* conversion calls in one behaviour of SpecFault
MaxFaultCalls == 2
\* conversion calls in one behaviour of SpecConc
MaxConcCalls == 2
\* seconds the wall clock can advance over
MaxClock == 1
\* I/O faults (read-only vault, full disk) injected in one behaviour
MaxFaults == 1
\* requests the service receives in one behaviour of SpecService
MaxRequests == 3

(************************* program constants *******************************)
U16Max == 65535
DefaultFps == 24
MaxGrid == 500

(***************************** strings *************************************)
DigitChar == <<"0", "1", "2", "3", "4", "5", "6", "7", "8", "9">>

RECURSIVE Digits(_)
\* str(n) for n >= 0
Digits(n) == IF n < 10 THEN <<DigitChar[n + 1]>>
             ELSE Digits(n \div 10) \o <<DigitChar[(n % 10) + 1]>>

RECURSIVE ZeroPad(_, _)
ZeroPad(s, w) == IF Len(s) >= w THEN s ELSE ZeroPad(<<"0">> \o s, w)

\* f"{n:03d}": at least three digits, zero padded
Fmt03d(n) == ZeroPad(Digits(n), 3)

\* f"{n:02d}"
Fmt02d(n) == ZeroPad(Digits(n), 2)

\* s.startswith(prefix)
StartsWith(s, prefix) ==
    /\ Len(s) >= Len(prefix)
    /\ SubSeq(s, 1, Len(prefix)) = prefix

\* s.endswith(suffix)
EndsWith(s, suffix) ==
    /\ Len(s) >= Len(suffix)
    /\ SubSeq(s, Len(s) - Len(suffix) + 1, Len(s)) = suffix

\* index of the last "." of a name that is not a leading dot, 0 when none
LastDot(name) ==
    LET dots == {i \in 2..Len(name) : name[i] = "."}
    IN  IF dots = {} THEN 0 ELSE CHOOSE i \in dots : \A j \in dots : j <= i

\* os.path.splitext(os.path.basename(output_path))[0]
BaseOf(path) ==
    LET name == path.file
        d == LastDot(name)
    IN  IF d = 0 THEN name ELSE SubSeq(name, 1, d - 1)

\* datetime.now().strftime("%Y%m%d_%H%M%S") at second t of some minute
StampOf(t) ==
    <<"2", "0", "2", "6", "0", "1", "0", "1", "_", "1", "2", "0", "0">> \o Fmt02d(t)

BlobExt == <<".", "b", "l", "o", "b">>

\* a name made of the base and the timestamp alone
BackupNameStampOnly(base, num, t) == base \o <<"_">> \o StampOf(t) \o BlobExt

\* f"{base}_{next_num:03d}_{timestamp}.blob"
BackupName(base, num, t) ==
    base \o <<"_">> \o Fmt03d(num) \o <<"_">> \o StampOf(t) \o BlobExt


(************************** struct.pack / unpack ***************************)
\* struct.pack("<H...", vals) raises struct.error unless 0 <= v <= 65535
PackOk(vals) == \A i \in 1..Len(vals) : vals[i] >= 0 /\ vals[i] <= U16Max

RECURSIVE PackBE(_)
\* two bytes per value, high byte first (">H")
PackBE(vals) ==
    IF vals = <<>> THEN <<>>
    ELSE <<Head(vals) \div 256, Head(vals) % 256>> \o PackBE(Tail(vals))

RECURSIVE PackLE(_)
\* struct.pack("<H...", vals): two bytes per value, low byte first
PackLE(vals) ==
    IF vals = <<>> THEN <<>>
    ELSE <<Head(vals) % 256, Head(vals) \div 256>> \o PackLE(Tail(vals))

\* struct.unpack("<H", bytes[2k-2 : 2k]) for the k-th field, k = 1, 2, ...
UnpackLE(bytes, k) == bytes[2 * k - 1] + 256 * bytes[2 * k]

(***************************** frame lists *********************************)
\* A list of frames is a sequence of runs [src, lo, hi]: frames lo..hi of
\* source src.  A file body is such a list whose runs also carry n, the
\* number of bytes written per frame.
RunLen(r) == r.hi - r.lo + 1

RECURSIVE ListLen(_)
\* len(frames)
ListLen(rl) == IF rl = <<>> THEN 0 ELSE RunLen(Head(rl)) + ListLen(Tail(rl))

RECURSIVE ListTake(_, _)
\* frames[:k]
ListTake(rl, k) ==
    IF rl = <<>> \/ k <= 0 THEN <<>>
    ELSE IF RunLen(Head(rl)) <= k
         THEN <<Head(rl)>> \o ListTake(Tail(rl), k - RunLen(Head(rl)))
         ELSE <<[Head(rl) EXCEPT !.hi = Head(rl).lo + k - 1]>>

RECURSIVE ListNth(_, _)
\* frames[i - 1] (i counts from 1): the frame as [src, id]
ListNth(rl, i) ==
    IF i <= RunLen(Head(rl))
    THEN [src |-> Head(rl).src, id |-> Head(rl).lo + i - 1]
    ELSE ListNth(Tail(rl), i - RunLen(Head(rl)))

\* the list of the n frames of source src, in source order
FramesOf(src, n) == IF n = 0 THEN <<>> ELSE <<[src |-> src, lo |-> 1, hi |-> n]>>

\* the body after f.write(<n bytes of frame fr>)
BodyAppend(body, fr, n) ==
    LET k == Len(body)
    IN  IF k > 0 /\ body[k].src = fr.src /\ body[k].hi + 1 = fr.id /\ body[k].n = n
        THEN [body EXCEPT ![k].hi = fr.id]
        ELSE Append(body, [src |-> fr.src, lo |-> fr.id, hi |-> fr.id, n |-> n])

RECURSIVE BodyBytes(_)
BodyBytes(body) ==
    IF body = <<>> THEN 0
    ELSE RunLen(Head(body)) * Head(body).n + BodyBytes(Tail(body))

(******************************* files *************************************)
\* a directory (a function from the names in it to their content) after a
\* file is created or replaced
Put(dir, name, data) ==
    [x \in DOMAIN dir \cup {name} |-> IF x = name THEN data ELSE dir[x]]

\* a directory with no file in it
NoFiles == [x \in {} |-> 0]

\* open(path, "wb") on success: the file exists and is empty
EmptyFile == [hdr |-> <<>>, body |-> <<>>]

\* os.path.getsize
FileSize(f) == Len(f.hdr) + BodyBytes(f.body)

\* len(img.tobytes()) of an "L" image resized to (cols, rows)
GridBytes(cols, rows) == cols * rows


(**************************** output paths *********************************)
\* two paths with the same base name in different directories, and one
\* whose base name extends that of the others
PathA == [dir |-> "A", file |-> <<"a">> \o BlobExt]
PathB == [dir |-> "B", file |-> <<"a">> \o BlobExt]
PathC == [dir |-> "A", file |-> <<"a", "_", "b">> \o BlobExt]
Paths == {PathA, PathB, PathC}

Procs == {1, 2}

VARIABLES
    fs,        \* the output files that exist: path -> content
    vault,     \* the files of BACKUP_DIR: name -> content
    vaultDir,  \* whether BACKUP_DIR exists
    clock,     \* the wall clock, in seconds
    proc,      \* per conversion process: its arguments, locals and position
    faults,    \* I/O faults the environment may still inject
    calls,     \* conversion calls made so far
    overlap,   \* whether two conversions have ever run at the same time
    log        \* the completed backups, conversions and failures, in order

convVars == <<fs, vault, vaultDir, clock, proc, faults, calls, overlap, log>>

VARIABLES
    pending,   \* _pending_cleanup
    disk,      \* the temporary directories that exist: id -> file names
    req,       \* per thread: the request it handles and its position
    made,      \* temporary directories created so far (mkdtemp's fresh names)
    received,  \* requests received so far
    stolen     \* directories another request removed or emptied while their
               \* own request was still in progress

svcVars == <<pending, disk, req, made, received, stolen>>

VARIABLES
    platform,  \* os.name
    folder,    \* the names of the files in the folder
    gathered   \* the outcome of gather_frames_from_folder

dirVars == <<platform, folder, gathered>>

VARIABLES
    grid,      \* the clamped <<cols, rows>> of a preview request
    pixels,    \* img.tobytes() of the resized grayscale image
    shown      \* the outcome of the preview handler

pvVars == <<grid, pixels, shown>>

vars == <<fs, vault, vaultDir, clock, proc, faults, calls, overlap, log,
          pending, disk, req, made, received, stolen,
          platform, folder, gathered,
          grid, pixels, shown>>

IdleProc ==
    [pc |-> "idle", kind |-> "single", out |-> PathA, src |-> 0, cols |-> 0,
     rows |-> 0, fps |-> 0, bad |-> 0, caller |-> "lib", fpsGiven |-> FALSE,
     fpsArg |-> 0, srcFps |-> 0, nIn |-> 0, frames |-> <<>>, num |-> 0, i |-> 0,
     next_num |-> 0, stamp |-> 0, err |-> "", errAt |-> "", bkErr |-> ""]

Active(q) == proc[q].pc \notin {"idle", "done", "failed"}

Event(ev, out, num, name, data) ==
    [ev |-> ev, out |-> out, num |-> num, name |-> name, data |-> data]

FailEvent(pr) == Event("fail", pr.out, 0, <<>>, EmptyFile)

\* the log after process record pr has taken a step that changed the file
\* system to fs2: a conversion that ended is recorded
Logged(pr, fs2) ==
    IF pr.pc = "failed" THEN Append(log, FailEvent(pr))
    ELSE IF pr.pc = "done" THEN Append(log, Event("done", pr.out, 0, <<>>, fs2[pr.out]))
    ELSE log

\* an exception leaves the conversion function
Raised(pr, exc) == [pr EXCEPT !.pc = "failed", !.err = exc, !.errAt = pr.pc]

\* the I/O outcomes of one file-system call: success, or one of the
\* OSErrors a read-only or full disk gives, while the fault budget lasts
IoOutcomes == IF faults > 0 THEN {"ok", "OSError", "PermissionError"} ELSE {"ok"}

Spent(r) == IF r = "ok" THEN faults ELSE faults - 1

(*********************** the conversion is called **************************)
\* A caller invokes convert_image_to_ascii_bin (kind "single") or
\* convert_sequence_to_blob (kind "seq") with arguments a.  Two conversions
\* that run at the same time write different output paths.
Call(p, a, maxCalls) ==
    /\ ~Active(p)
    /\ calls < maxCalls
    /\ \A q \in Procs \ {p} : Active(q) => proc[q].out # a.out
    /\ proc' = [proc EXCEPT ![p] =
            [IdleProc EXCEPT
                !.pc = IF a.kind = "single" THEN "quantize" ELSE "seq_begin",
                !.kind = a.kind, !.out = a.out, !.src = a.src,
                !.cols = a.cols, !.rows = a.rows, !.fps = a.fps,
                !.bad = a.bad, !.caller = a.caller,
                !.fpsGiven = a.fpsGiven, !.fpsArg = a.fpsArg,
                !.srcFps = a.srcFps, !.nIn = a.n,
                !.frames = IF a.kind = "single" THEN <<>> ELSE FramesOf(a.src, a.n)]]
    /\ calls' = calls + 1
    /\ overlap' = (overlap \/ \E q \in Procs \ {p} : Active(q))
    /\ UNCHANGED <<svcVars, dirVars, pvVars, fs, vault, vaultDir, clock, faults, log>>

(******************* convert_image_to_ascii_bin, first part ****************)
\* Image.open(image_path).convert("L"), img.resize((cols, rows), LANCZOS):
\* an undecodable source raises before anything is written
Quantize(p) ==
    /\ proc[p].pc = "quantize"
    /\ LET pr == IF proc[p].bad # 0 THEN Raised(proc[p], "UnidentifiedImageError")
                 ELSE [proc[p] EXCEPT !.pc = "bk_exists"]
       IN  /\ proc' = [proc EXCEPT ![p] = pr]
           /\ log' = Logged(pr, fs)
    /\ UNCHANGED <<svcVars, dirVars, pvVars, fs, vault, vaultDir, clock, faults, calls, overlap>>

(******************* convert_sequence_to_blob, first part ******************)
\* the frames are not cut
NotTruncated(frames) == frames

\* num_frames = len(frames); more than 65535 frames are cut to the first 65535
Truncated(frames) ==
    IF ListLen(frames) > U16Max THEN ListTake(frames, U16Max) ELSE frames

SeqBegin(p) ==
    /\ proc[p].pc = "seq_begin"
    /\ proc' = [proc EXCEPT ![p] =
            [proc[p] EXCEPT !.frames = Truncated(proc[p].frames),
                            !.num = ListLen(Truncated(proc[p].frames)),
                            !.pc = "bk_exists"]]
    /\ UNCHANGED <<svcVars, dirVars, pvVars, fs, vault, vaultDir, clock, faults, calls, overlap, log>>


(****************************** backup_blob ********************************)
\* the exception classes "except OSError" catches among those raised here
OSErrorClasses == {"OSError", "PermissionError", "FileNotFoundError", "SameFileError"}

\* a handler that catches PermissionError alone
BackupExceptPermissionOnly(pr, exc) ==
    IF exc = "PermissionError"
    THEN [pr EXCEPT !.pc = "open", !.bkErr = exc]
    ELSE [pr EXCEPT !.pc = "failed", !.err = exc, !.errAt = pr.pc]

\* try: ... except OSError: pass -- a caught exception ends backup_blob
\* normally and the conversion goes on to open the destination; any
\* other exception leaves the conversion
BackupExcept(pr, exc) ==
    IF exc \in OSErrorClasses
    THEN [pr EXCEPT !.pc = "open", !.bkErr = exc]
    ELSE Raised(pr, exc)

\* if not os.path.exists(output_path): return
BackupExists(p) ==
    /\ proc[p].pc = "bk_exists"
    /\ proc' = [proc EXCEPT ![p].pc =
            IF proc[p].out \in DOMAIN fs THEN "bk_mkdir" ELSE "open"]
    /\ UNCHANGED <<svcVars, dirVars, pvVars, fs, vault, vaultDir, clock, faults, calls, overlap, log>>

\* os.makedirs(BACKUP_DIR, exist_ok=True)
BackupMkdir(p) ==
    /\ proc[p].pc = "bk_mkdir"
    /\ \E r \in IoOutcomes :
          LET pr == IF r = "ok" THEN [proc[p] EXCEPT !.pc = "bk_list"]
                    ELSE BackupExcept(proc[p], r)
          IN  /\ proc' = [proc EXCEPT ![p] = pr]
              /\ vaultDir' = (vaultDir \/ r = "ok")
              /\ faults' = Spent(r)
              /\ log' = Logged(pr, fs)
    /\ UNCHANGED <<svcVars, dirVars, pvVars, fs, vault, clock, calls, overlap>>

\* [f for f in os.listdir(BACKUP_DIR) if f.startswith(base + "_")]
Existing(dir, base) == {f \in DOMAIN dir : StartsWith(f, base \o <<"_">>)}

\* the files are matched against the file name with its extension, so
\* none is ever counted
NextNumByFileName(dir, base) == Cardinality(Existing(dir, base \o BlobExt)) + 1

\* the count used as the number, without the + 1
NextNumFromZero(dir, base) == Cardinality(Existing(dir, base))

\* next_num = len(existing) + 1
NextNum(dir, base) == Cardinality(Existing(dir, base)) + 1

BackupList(p) ==
    /\ proc[p].pc = "bk_list"
    /\ \E r \in IoOutcomes :
          LET pr == IF r = "ok"
                    THEN [proc[p] EXCEPT
                            !.pc = "bk_stamp",
                            !.next_num = NextNum(vault, BaseOf(proc[p].out))]
                    ELSE BackupExcept(proc[p], r)
          IN  /\ proc' = [proc EXCEPT ![p] = pr]
              /\ faults' = Spent(r)
              /\ log' = Logged(pr, fs)
    /\ UNCHANGED <<svcVars, dirVars, pvVars, fs, vault, vaultDir, clock, calls, overlap>>

\* timestamp = datetime.now().strftime(...): the clock is read, having
\* advanced by any amount since it was last read
BackupStamp(p) ==
    /\ proc[p].pc = "bk_stamp"
    /\ \E t \in clock..MaxClock :
          /\ clock' = t
          /\ proc' = [proc EXCEPT ![p].stamp = t, ![p].pc = "bk_copy"]
    /\ UNCHANGED <<svcVars, dirVars, pvVars, fs, vault, vaultDir, faults, calls, overlap, log>>

\* shutil.copy2(output_path, backup_path): the backup file is created or
\* replaced with the content of the output file.  A failing copy leaves
\* no backup file (the error came before the target was opened) or a
\* truncated one ("partial").
CopyOutcomes == IF faults > 0 THEN IoOutcomes \cup {"partial"} ELSE IoOutcomes

BackupCopy(p) ==
    /\ proc[p].pc = "bk_copy"
    /\ \E r \in CopyOutcomes :
          LET me == proc[p]
              name == BackupName(BaseOf(me.out), me.next_num, me.stamp)
              pr == IF r = "ok" THEN [me EXCEPT !.pc = "open"]
                    ELSE BackupExcept(me, IF r = "partial" THEN "OSError" ELSE r)
          IN  /\ proc' = [proc EXCEPT ![p] = pr]
              /\ vault' = IF r = "ok" THEN Put(vault, name, fs[me.out])
                          ELSE IF r = "partial" THEN Put(vault, name, EmptyFile)
                          ELSE vault
              /\ faults' = Spent(r)
              /\ log' = IF r = "ok"
                        THEN Append(log, Event("backup", me.out, me.next_num, name, fs[me.out]))
                        ELSE Logged(pr, fs)
    /\ UNCHANGED <<svcVars, dirVars, pvVars, fs, vaultDir, clock, calls, overlap>>

(************************* writing the output file *************************)
\* with open(output_path, "wb") as f: the file is created or truncated
Open(p) ==
    /\ proc[p].pc = "open"
    /\ \E r \in IoOutcomes :
          LET pr == IF r = "ok" THEN [proc[p] EXCEPT !.pc = "header"]
                    ELSE Raised(proc[p], r)
          IN  /\ proc' = [proc EXCEPT ![p] = pr]
              /\ fs' = IF r = "ok" THEN Put(fs, proc[p].out, EmptyFile) ELSE fs
              /\ faults' = Spent(r)
              /\ log' = Logged(pr, fs)
    /\ UNCHANGED <<svcVars, dirVars, pvVars, vault, vaultDir, clock, calls, overlap>>

\* the fields struct.pack is given: "<HH" or "<HHHH"
HeaderFields(pr) ==
    IF pr.kind = "single" THEN <<pr.cols, pr.rows>>
    ELSE <<pr.cols, pr.rows, pr.num, pr.fps>>

\* f.write(struct.pack(...)): a field outside u16 raises struct.error with
\* the file already open (and truncated)
WriteHeader(p) ==
    /\ proc[p].pc = "header"
    /\ \E r \in IoOutcomes :
          LET me == proc[p]
              ok == PackOk(HeaderFields(me)) /\ r = "ok"
              pr == IF ~PackOk(HeaderFields(me)) THEN Raised(me, "struct.error")
                    ELSE IF r # "ok" THEN Raised(me, r)
                    ELSE [me EXCEPT !.pc = IF me.kind = "single" THEN "body"
                                           ELSE IF me.num = 0 THEN "done"
                                           ELSE "frame"]
              fs2 == IF ok THEN [fs EXCEPT ![me.out].hdr = PackLE(HeaderFields(me))]
                     ELSE fs
          IN  /\ proc' = [proc EXCEPT ![p] = pr]
              /\ fs' = fs2
              /\ faults' = IF PackOk(HeaderFields(me)) THEN Spent(r) ELSE faults
              /\ log' = Logged(pr, fs2)
    /\ UNCHANGED <<svcVars, dirVars, pvVars, vault, vaultDir, clock, calls, overlap>>

\* f.write(img.tobytes()): the body of a single-image blob
WriteBody(p) ==
    /\ proc[p].pc = "body"
    /\ \E r \in IoOutcomes :
          LET me == proc[p]
              pr == IF r = "ok" THEN [me EXCEPT !.pc = "done"] ELSE Raised(me, r)
              fs2 == IF r = "ok"
                     THEN [fs EXCEPT ![me.out].body =
                             BodyAppend(@, [src |-> me.src, id |-> 1],
                                        GridBytes(me.cols, me.rows))]
                     ELSE fs
          IN  /\ proc' = [proc EXCEPT ![p] = pr]
              /\ fs' = fs2
              /\ faults' = Spent(r)
              /\ log' = Logged(pr, fs2)
    /\ UNCHANGED <<svcVars, dirVars, pvVars, vault, vaultDir, clock, calls, overlap>>

\* one turn of "for i, img in enumerate(frames)": img.convert("L") raises on
\* an undecodable frame; otherwise the resized frame's bytes are written
WriteFrame(p) ==
    /\ proc[p].pc = "frame"
    /\ \E r \in IoOutcomes :
          LET me == proc[p]
              fr == ListNth(me.frames, me.i + 1)
              bad == fr.id = me.bad
              ok == ~bad /\ r = "ok"
              pr == IF bad THEN Raised(me, "OSError")
                    ELSE IF r # "ok" THEN Raised(me, r)
                    ELSE [me EXCEPT !.i = me.i + 1,
                                    !.pc = IF me.i + 1 = me.num THEN "done" ELSE "frame"]
              fs2 == IF ok
                     THEN [fs EXCEPT ![me.out].body =
                             BodyAppend(@, fr, GridBytes(me.cols, me.rows))]
                     ELSE fs
          IN  /\ proc' = [proc EXCEPT ![p] = pr]
              /\ fs' = fs2
              /\ faults' = IF bad THEN faults ELSE Spent(r)
              /\ log' = Logged(pr, fs2)
    /\ UNCHANGED <<svcVars, dirVars, pvVars, vault, vaultDir, clock, calls, overlap>>

\* the steps of one conversion process
Steps(p) ==
    \/ Quantize(p)
    \/ SeqBegin(p)
    \/ BackupExists(p)
    \/ BackupMkdir(p)
    \/ BackupList(p)
    \/ BackupStamp(p)
    \/ BackupCopy(p)
    \/ Open(p)
    \/ WriteHeader(p)
    \/ WriteBody(p)
    \/ WriteFrame(p)


(***************************************************************************)
(* The service (blob_converter_app.py).  app.run() serves each request on  *)
(* its own thread; _pending_cleanup is one list of the process.  A         *)
(* temporary directory is a set of file names; shutil.rmtree unlinks the   *)
(* entries it lists and then removes the directory, which fails (and is    *)
(* ignored) when a file was created in between.                            *)
(***************************************************************************)
Threads == {1, 2}

Endpoints == {"index", "convert_image", "convert_video",
              "dimensions_video", "preview_video"}

\* the endpoints that register their directory in _pending_cleanup
Registering == {"convert_image", "convert_video"}


IdleReq == [pc |-> "idle", ep |-> "index", valid |-> TRUE, tmp |-> 0,
            path |-> 0, status |-> 0]

\* the request that made directory d is between its mkdtemp and its response
InProgress(t) == req[t].pc \notin {"idle", "done"}

OwnerBusy(d, t) == \E u \in Threads \ {t} : req[u].tmp = d /\ InProgress(u)

\* a request arrives; valid says whether it passes the checks made before
\* any directory is created (file present, extension allowed, OpenCV there)
Receive(t) ==
    /\ ~InProgress(t)
    /\ received < MaxRequests
    /\ \E ep \in Endpoints, valid \in BOOLEAN :
          req' = [req EXCEPT ![t] = [IdleReq EXCEPT !.pc = "validate",
                                                     !.ep = ep, !.valid = valid]]
    /\ received' = received + 1
    /\ UNCHANGED <<convVars, dirVars, pvVars, pending, disk, made, stolen>>

\* the early "return jsonify(error=...), 400" of every handler
Validate(t) ==
    /\ req[t].pc = "validate"
    /\ req' = [req EXCEPT ![t] =
            IF req[t].ep = "index" THEN [req[t] EXCEPT !.pc = "after", !.status = 200]
            ELSE IF ~req[t].valid THEN [req[t] EXCEPT !.pc = "after", !.status = 400]
            ELSE [req[t] EXCEPT !.pc = "mkdtemp"]]
    /\ UNCHANGED <<convVars, dirVars, pvVars, pending, disk, made, received, stolen>>

\* tmp_dir = tempfile.mkdtemp()
Mkdtemp(t) ==
    /\ req[t].pc = "mkdtemp"
    /\ made' = made + 1
    /\ disk' = Put(disk, made + 1, {})
    /\ req' = [req EXCEPT ![t].tmp = made + 1,
                          ![t].pc = IF req[t].ep \in Registering THEN "register"
                                    ELSE "save"]
    /\ UNCHANGED <<convVars, dirVars, pvVars, pending, received, stolen>>

\* _pending_cleanup.append(tmp_dir)
Register(t) ==
    /\ req[t].pc = "register"
    /\ pending' = Append(pending, req[t].tmp)
    /\ req' = [req EXCEPT ![t].pc = "save"]
    /\ UNCHANGED <<convVars, dirVars, pvVars, disk, made, received, stolen>>

\* where a handler goes when its try block ends: the registering handlers
\* return, the others run "finally: shutil.rmtree(tmp_dir, ...)" first
Leave(r, status) ==
    IF r.ep \in Registering
    THEN [r EXCEPT !.pc = "after", !.status = status]
    ELSE [r EXCEPT !.pc = "rm_scan", !.path = r.tmp, !.status = status]

\* file.save(input_path): raises when the directory is gone
Save(t) ==
    /\ req[t].pc = "save"
    /\ LET d == req[t].tmp
       IN  IF d \in DOMAIN disk
           THEN /\ disk' = [disk EXCEPT ![d] = @ \cup {"input"}]
                /\ req' = [req EXCEPT ![t].pc = "work"]
           ELSE /\ disk' = disk
                /\ req' = [req EXCEPT ![t] = Leave(req[t], 500)]
    /\ UNCHANGED <<convVars, dirVars, pvVars, pending, made, received, stolen>>

\* the body of the try block after the upload is saved: the conversion
\* writes the blob into the directory, the probes only read the upload.
\* It raises (500) when the upload cannot be decoded or its file or
\* directory is gone; a video without frames returns 400.
Work(t) ==
    /\ req[t].pc = "work"
    /\ LET d == req[t].tmp
           there == d \in DOMAIN disk /\ "input" \in disk[d]
       IN  \E decodes \in BOOLEAN, frames \in BOOLEAN :
              IF ~there \/ ~decodes
              THEN /\ disk' = disk
                   /\ req' = [req EXCEPT ![t] = Leave(req[t], 500)]
              ELSE IF ~frames /\ req[t].ep \in {"convert_video", "preview_video"}
              THEN /\ disk' = disk
                   /\ req' = [req EXCEPT ![t] = Leave(req[t], 400)]
              ELSE IF req[t].ep \in Registering
              THEN /\ disk' = [disk EXCEPT ![d] = @ \cup {"output"}]
                   /\ req' = [req EXCEPT ![t].pc = "send"]
              ELSE /\ disk' = disk
                   /\ req' = [req EXCEPT ![t] = Leave(req[t], 200)]
    /\ UNCHANGED <<convVars, dirVars, pvVars, pending, made, received, stolen>>

\* return send_file(output_path, ...): raises when the blob is gone
Send(t) ==
    /\ req[t].pc = "send"
    /\ LET d == req[t].tmp
           there == d \in DOMAIN disk /\ "output" \in disk[d]
       IN  req' = [req EXCEPT ![t] = Leave(req[t], IF there THEN 200 ELSE 500)]
    /\ UNCHANGED <<convVars, dirVars, pvVars, pending, disk, made, received, stolen>>

\* cleanup_temp_dirs: "while _pending_cleanup:"
AfterRequest(t) ==
    /\ req[t].pc = "after"
    /\ req' = [req EXCEPT ![t].pc = IF pending # <<>> THEN "pop" ELSE "done"]
    /\ UNCHANGED <<convVars, dirVars, pvVars, pending, disk, made, received, stolen>>

\* path = _pending_cleanup.pop(): IndexError when another thread emptied
\* the list since the test; the response becomes a 500
Pop(t) ==
    /\ req[t].pc = "pop"
    /\ IF pending = <<>>
       THEN /\ req' = [req EXCEPT ![t].pc = "done", ![t].status = 500]
            /\ pending' = pending
       ELSE /\ req' = [req EXCEPT ![t].pc = "rm_scan",
                                  ![t].path = pending[Len(pending)]]
            /\ pending' = SubSeq(pending, 1, Len(pending) - 1)
    /\ UNCHANGED <<convVars, dirVars, pvVars, disk, made, received, stolen>>

\* shutil.rmtree(path, ignore_errors=True), first half: the entries listed
\* are unlinked
RmtreeScan(t) ==
    /\ req[t].pc = "rm_scan"
    /\ LET d == req[t].path
       IN  /\ disk' = IF d \in DOMAIN disk THEN [disk EXCEPT ![d] = {}] ELSE disk
           /\ stolen' = IF d \in DOMAIN disk /\ disk[d] # {} /\ OwnerBusy(d, t)
                         THEN stolen \cup {d} ELSE stolen
    /\ req' = [req EXCEPT ![t].pc = "rm_rmdir"]
    /\ UNCHANGED <<convVars, dirVars, pvVars, pending, made, received>>

\* second half: os.rmdir, which fails on a directory that is not empty;
\* the error is ignored.  Control is back in cleanup_temp_dirs, which every
\* response passes through (after "finally" as after a turn of its loop).
RmtreeRmdir(t) ==
    /\ req[t].pc = "rm_rmdir"
    /\ LET d == req[t].path
           goes == d \in DOMAIN disk /\ disk[d] = {}
       IN  /\ disk' = IF goes THEN [x \in DOMAIN disk \ {d} |-> disk[x]] ELSE disk
           /\ stolen' = IF goes /\ OwnerBusy(d, t) THEN stolen \cup {d} ELSE stolen
    /\ req' = [req EXCEPT ![t].pc = "after"]
    /\ UNCHANGED <<convVars, dirVars, pvVars, pending, made, received>>

ServiceSteps(t) ==
    \/ Receive(t)
    \/ Validate(t)
    \/ Mkdtemp(t)
    \/ Register(t)
    \/ Save(t)
    \/ Work(t)
    \/ Send(t)
    \/ AfterRequest(t)
    \/ Pop(t)
    \/ RmtreeScan(t)
    \/ RmtreeRmdir(t)


(***************************************************************************)
(* The directory source: gather_frames_from_folder.                        *)
(***************************************************************************)
LowerLetters == <<"a", "b", "c", "d", "e", "f", "g", "h", "i", "j", "k", "l", "m",
                  "n", "o", "p", "q", "r", "s", "t", "u", "v", "w", "x", "y", "z">>
UpperLetters == <<"A", "B", "C", "D", "E", "F", "G", "H", "I", "J", "K", "L", "M",
                  "N", "O", "P", "Q", "R", "S", "T", "U", "V", "W", "X", "Y", "Z">>

\* the characters of file names, in code point order
Alphabet == <<"*", ".">> \o DigitChar \o UpperLetters \o <<"_">> \o LowerLetters

\* a number that orders characters as ord(c) does
Ord(c) == CHOOSE i \in 1..Len(Alphabet) : Alphabet[i] = c

IndexIn(letters, c) == CHOOSE i \in 1..Len(letters) : letters[i] = c

UpperChar(c) ==
    IF \E i \in 1..26 : LowerLetters[i] = c
    THEN UpperLetters[IndexIn(LowerLetters, c)] ELSE c

LowerChar(c) ==
    IF \E i \in 1..26 : UpperLetters[i] = c
    THEN LowerLetters[IndexIn(UpperLetters, c)] ELSE c

\* s.upper(), s.lower()
Upper(s) == [i \in 1..Len(s) |-> UpperChar(s[i])]
Lower(s) == [i \in 1..Len(s) |-> LowerChar(s[i])]

RECURSIVE StrLess(_, _)
\* s < t for Python strings
StrLess(s, t) ==
    IF t = <<>> THEN FALSE
    ELSE IF s = <<>> THEN TRUE
    ELSE IF Head(s) # Head(t) THEN Ord(Head(s)) < Ord(Head(t))
    ELSE StrLess(Tail(s), Tail(t))

RECURSIVE Sorted(_)
\* sorted(set) of strings
Sorted(S) ==
    IF S = {} THEN <<>>
    ELSE LET m == CHOOSE x \in S : \A y \in S \ {x} : StrLess(x, y)
         IN  <<m>> \o Sorted(S \ {m})

\* extensions = ("*.png", "*.jpg", "*.jpeg", "*.bmp", "*.tiff")
Extensions == <<
    <<"*", ".", "p", "n", "g">>,
    <<"*", ".", "j", "p", "g">>,
    <<"*", ".", "j", "p", "e", "g">>,
    <<"*", ".", "b", "m", "p">>,
    <<"*", ".", "t", "i", "f", "f">> >>

\* os.path.normcase: lower case on Windows, unchanged elsewhere
NormCase(os, s) == IF os = "nt" THEN Lower(s) ELSE s

\* fnmatch of a name against a pattern "*<suffix>"
FnMatch(os, name, pat) == EndsWith(NormCase(os, name), Tail(NormCase(os, pat)))

\* glob.glob(os.path.join(folder_path, pat)): the names of the folder that
\* match; a name with a leading dot is hidden from a pattern without one
Glob(os, names, pat) == {n \in names : Head(n) # "." /\ FnMatch(os, n, pat)}

\* the files list after the loop over extensions and "sorted(set(files))"
GatherFiles(os, names) ==
    Sorted(UNION {Glob(os, names, Extensions[i]) \cup Glob(os, names, Upper(Extensions[i]))
                  : i \in 1..Len(Extensions)})


\* the files a folder may hold
FolderNames == {
    <<"b", ".", "p", "n", "g">>,
    <<"a", ".", "p", "n", "g">>,
    <<"c", ".", "p", "n", "g">>,
    <<"B", ".", "P", "N", "G">>,
    <<"d", ".", "P", "n", "g">>,
    <<"a", "1", "0", ".", "j", "p", "e", "g">>,
    <<"a", "2", ".", "t", "i", "f", "f">>,
    <<"n", "o", "t", "e", "s", ".", "t", "x", "t">>,
    <<"e", ".", "B", "M", "P">> }

\* gather_frames_from_folder(folder_path): sys.exit(1) when no file
\* matches, else one frame per file of the list, in its order
GatherFramesFromFolder ==
    /\ gathered.st = "idle"
    /\ LET files == GatherFiles(platform, folder)
       IN  gathered' = IF files = <<>> THEN [st |-> "exit", frames |-> <<>>]
                       ELSE [st |-> "returned", frames |-> files]
    /\ UNCHANGED <<convVars, svcVars, pvVars, platform, folder>>


(***************************************************************************)
(* The text previews: preview() and preview_video().  Both turn the bytes  *)
(* of the resized grayscale image into rows of ramp characters.            *)
(***************************************************************************)
\* ASCII_RAMP = ' .:-=+*#%@'
ASCII_RAMP == <<" ", ".", ":", "-", "=", "+", "*", "#", "%", "@">>

\* the largest value of a byte of img.tobytes()
ByteMax == 255

\* the ramp's length used as the multiplier
IdxByRampLength(brightness) == (brightness * Len(ASCII_RAMP)) \div 255

\* preview(): idx = brightness * (len(ASCII_RAMP) - 1) // 255
PreviewIdx(brightness) == (brightness * (Len(ASCII_RAMP) - 1)) \div 255

\* preview_video(): idx = brightness * (len(ASCII_RAMP) - 1) // 255
PreviewVideoIdx(brightness) == (brightness * (Len(ASCII_RAMP) - 1)) \div 255

\* ASCII_RAMP[idx] is defined for -len <= idx < len (IndexError otherwise)
InRamp(idx) == idx >= -Len(ASCII_RAMP) /\ idx < Len(ASCII_RAMP)

\* ASCII_RAMP[idx]: a negative index counts from the end
RampChar(idx) == ASCII_RAMP[(IF idx < 0 THEN idx + Len(ASCII_RAMP) ELSE idx) + 1]

\* brightness = pixels[row * cols + col], row and col counted from 0
PixelAt(px, cols, row, col) == px[row * cols + col + 1]

\* the two nested loops over rows and cols, given the idx of every pixel in
\* scan order: the rows of characters jsonify returns, or the 500 of
\* "except Exception" when an index is outside the ramp
Rendered(ep, idxs, cols, rows) ==
    IF \E k \in 1..Len(idxs) : ~InRamp(idxs[k])
    THEN [st |-> "error", ep |-> ep, idxs |-> idxs, lines |-> <<>>]
    ELSE [st |-> "done", ep |-> ep, idxs |-> idxs,
          lines |-> [row \in 1..rows |->
                       [col \in 1..cols |-> RampChar(idxs[(row - 1) * cols + col])]]]

\* preview(): the image is decoded, made grayscale and resized, then drawn
Preview ==
    /\ shown.st = "idle"
    /\ shown' = Rendered("preview",
                    [k \in 1..Len(pixels) |->
                        PreviewIdx(PixelAt(pixels, grid[1], (k - 1) \div grid[1],
                                           (k - 1) % grid[1]))],
                    grid[1], grid[2])
    /\ UNCHANGED <<convVars, svcVars, dirVars, grid, pixels>>

\* preview_video(): the first frame is made grayscale and resized, then drawn
PreviewVideo ==
    /\ shown.st = "idle"
    /\ shown' = Rendered("preview_video",
                    [k \in 1..Len(pixels) |->
                        PreviewVideoIdx(PixelAt(pixels, grid[1], (k - 1) \div grid[1],
                                                (k - 1) % grid[1]))],
                    grid[1], grid[2])
    /\ UNCHANGED <<convVars, svcVars, dirVars, grid, pixels>>


(***************************************************************************)
(* Arguments and callers.                                                  *)
(***************************************************************************)
\* int(round(x)) for x = h/100: Python rounds halves to the even neighbour
RoundHundredths(h) ==
    LET q == h \div 100
        r == h % 100
    IN  IF r < 50 THEN q
        ELSE IF r > 50 THEN q + 1
        ELSE IF q % 2 = 0 THEN q ELSE q + 1

\* max(1, int(round(source_fps)))
SourceFps(h) == IF RoundHundredths(h) > 1 THEN RoundHundredths(h) ELSE 1

\* the source rate is preferred to the argument
CliFpsSourceFirst(isFolder, given, arg, h) ==
    IF ~isFolder THEN (IF RoundHundredths(h) > 1 THEN RoundHundredths(h) ELSE 1)
    ELSE IF given /\ arg # 0 THEN arg ELSE DefaultFps

\* main(): fps = args.fps if args.fps else 24                    (folder)
\*         fps = args.fps if args.fps else max(1, int(round(source_fps)))
\* (--fps absent is None, which is false, and so is --fps 0)
CliFps(isFolder, given, arg, h) ==
    IF given /\ arg # 0 THEN arg
    ELSE IF isFolder THEN DefaultFps ELSE SourceFps(h)

\* convert_video(): fps = request.form.get("fps", 0, type=int);
\*                  actual_fps = fps if fps > 0 else max(1, int(round(source_fps)))
ServiceFps(given, arg, h) ==
    LET fps == IF given THEN arg ELSE 0
    IN  IF fps > 0 THEN fps ELSE SourceFps(h)

\* the fps a caller passes to convert_sequence_to_blob
ResolvedFps(caller, given, arg, h) ==
    IF caller = "cli_folder" THEN CliFps(TRUE, given, arg, h)
    ELSE IF caller = "cli_video" THEN CliFps(FALSE, given, arg, h)
    ELSE IF caller = "service" THEN ServiceFps(given, arg, h)
    ELSE arg

Args(kind, out, src, cols, rows, n, bad, caller, given, arg, h) ==
    [kind |-> kind, out |-> out, src |-> src, cols |-> cols, rows |-> rows,
     n |-> n, bad |-> bad, caller |-> caller, fpsGiven |-> given,
     fpsArg |-> arg, srcFps |-> h, fps |-> ResolvedFps(caller, given, arg, h)]

\* a direct call of convert_image_to_ascii_bin
Single(out, src, cols, rows, bad) ==
    Args("single", out, src, cols, rows, 1, bad, "lib", FALSE, 0, 0)

\* a direct call of convert_sequence_to_blob with n frames
Sequence(out, src, cols, rows, n, bad, fps) ==
    Args("seq", out, src, cols, rows, n, bad, "lib", TRUE, fps, 0)

\* a complete single-image blob (1 x 1) left by an earlier run
EarlierBlob ==
    [hdr |-> PackLE(<<1, 1>>), body |-> <<[src |-> 0, lo |-> 1, hi |-> 1, n |-> 1]>>]

ConvIdle(budget) ==
    /\ fs = NoFiles
    /\ vault = NoFiles
    /\ vaultDir = FALSE
    /\ clock = 0
    /\ proc = [p \in Procs |-> IdleProc]
    /\ faults = budget
    /\ calls = 0
    /\ overlap = FALSE
    /\ log = <<>>

SvcIdle ==
    /\ pending = <<>>
    /\ disk = NoFiles
    /\ req = [t \in Threads |-> IdleReq]
    /\ made = 0
    /\ received = 0
    /\ stolen = {}

DirIdle ==
    /\ platform = "posix"
    /\ folder = {}
    /\ gathered = [st |-> "idle", frames |-> <<>>]

NotShown == [st |-> "idle", ep |-> "", idxs |-> <<>>, lines |-> <<>>]

PvIdle ==
    /\ grid = <<1, 1>>
    /\ pixels = <<0>>
    /\ shown = NotShown

(***************************************************************************)
(* Spec: conversions run one after another on writable storage, from an    *)
(* empty vault and no output file.  The k-th call converts source k.       *)
(***************************************************************************)
SeqArgs(k) ==
    {Single(out, k, 2, 1, 0) : out \in Paths}
      \cup {Sequence(out, k, 1, 1, 2, 0, DefaultFps) : out \in Paths}

Init == ConvIdle(0) /\ SvcIdle /\ DirIdle /\ PvIdle

CallSeq == \E a \in SeqArgs(calls + 1) : Call(1, a, MaxCalls)

Next == CallSeq \/ Steps(1)

Spec == Init /\ [][Next]_vars

(***************************************************************************)
(* SpecFault: conversions run one after another to one path; sources may   *)
(* be undecodable, arguments out of range, and the environment may make    *)
(* file-system calls fail.                                                 *)
(***************************************************************************)
FaultArgs(k) ==
    { Single(PathA, k, 2, 1, 0),
      Single(PathA, k, 2, 1, 1),
      Single(PathA, k, U16Max + 1, 1, 0),
      Sequence(PathA, k, 1, 1, 2, 0, DefaultFps),
      Sequence(PathA, k, 1, 1, 2, 2, DefaultFps) }

InitFault == ConvIdle(MaxFaults) /\ SvcIdle /\ DirIdle /\ PvIdle

CallFault == \E a \in FaultArgs(calls + 1) : Call(1, a, MaxFaultCalls)

NextFault == CallFault \/ Steps(1)

SpecFault == InitFault /\ [][NextFault]_vars

(***************************************************************************)
(* SpecConc: two conversion processes that may run at the same time, on    *)
(* writable storage; any of the output files may exist beforehand.         *)
(***************************************************************************)
InitConc ==
    /\ fs \in {[x \in S |-> EarlierBlob] : S \in SUBSET Paths}
    /\ vault = NoFiles
    /\ vaultDir = FALSE
    /\ clock = 0
    /\ proc = [p \in Procs |-> IdleProc]
    /\ faults = 0
    /\ calls = 0
    /\ overlap = FALSE
    /\ log = <<>>
    /\ SvcIdle
    /\ DirIdle
    /\ PvIdle

\* the k-th call converts source k: a single image to any path, or a
\* sequence to PathB
ConcArgs(k) ==
    {Single(out, k, 2, 1, 0) : out \in Paths}
      \cup {Sequence(PathB, k, 1, 1, 2, 0, DefaultFps)}

CallConc(p) == \E a \in ConcArgs(calls + 1) : Call(p, a, MaxConcCalls)

NextConc == \E p \in Procs : CallConc(p) \/ Steps(p)

SpecConc == InitConc /\ [][NextConc]_vars

(***************************************************************************)
(* SpecFormat: one conversion, called directly or through the command line *)
(* or the service, over a wide range of grid sizes, frame counts and fps   *)
(* arguments; the output file may exist beforehand.                        *)
(***************************************************************************)
GridSizes == {1, 2, 255, 256, 257, MaxGrid}

FrameCounts == {0, 1, 2, 3, U16Max, U16Max + 1}

FpsArgs == {-1, 0, 1, 12, U16Max, U16Max + 1}

\* source frame rates, in hundredths of a frame per second
SourceRates == {0, 50, 150, 250, 2997, 6000}

Callers == {"cli_folder", "cli_video", "service"}

WideArgs ==
    {Single(PathA, 1, c, r, 0) : c \in GridSizes, r \in GridSizes}
      \cup {Sequence(PathA, 1, g[1], g[2], n, 0, DefaultFps) :
               g \in {<<1, 1>>, <<3, 2>>}, n \in FrameCounts}
      \cup {Args("seq", PathA, 1, 1, 1, 2, 0, c, TRUE, a, h) :
               c \in Callers, a \in FpsArgs, h \in SourceRates}
      \cup {Args("seq", PathA, 1, 1, 1, 2, 0, c, FALSE, 0, h) :
               c \in Callers, h \in SourceRates}

InitFormat ==
    /\ fs \in {NoFiles, [x \in {PathA} |-> EarlierBlob]}
    /\ vault = NoFiles
    /\ vaultDir = FALSE
    /\ clock = 0
    /\ proc = [p \in Procs |-> IdleProc]
    /\ faults = 0
    /\ calls = 0
    /\ overlap = FALSE
    /\ log = <<>>
    /\ SvcIdle
    /\ DirIdle
    /\ PvIdle

CallWide == \E a \in WideArgs : Call(1, a, 1)

NextFormat == CallWide \/ Steps(1)

SpecFormat == InitFormat /\ [][NextFormat]_vars

(***************************************************************************)
(* SpecService: the service's threads handle requests.                     *)
(***************************************************************************)
NextService == \E t \in Threads : ServiceSteps(t)

SpecService == Init /\ [][NextService]_vars

(***************************************************************************)
(* SpecFolder: gather_frames_from_folder on any folder, on either kind of  *)
(* operating system.                                                       *)
(***************************************************************************)
InitFolder ==
    /\ ConvIdle(0)
    /\ SvcIdle
    /\ platform \in {"posix", "nt"}
    /\ folder \in SUBSET FolderNames
    /\ gathered = [st |-> "idle", frames |-> <<>>]
    /\ PvIdle

NextFolder == GatherFramesFromFolder

SpecFolder == InitFolder /\ [][NextFolder]_vars

(***************************************************************************)
(* SpecVersions: conversions run one after another to one path, from an    *)
(* empty vault.  The destination may exist beforehand (the log then starts *)
(* with a "found" event holding its content), and the environment may make *)
(* file-system calls fail.                                                 *)
(***************************************************************************)
VersionArgs(k) ==
    { Single(PathA, k, 2, 1, 0),
      Sequence(PathA, k, 1, 1, 2, 0, DefaultFps) }

InitVersions ==
    /\ \/ fs = NoFiles /\ log = <<>>
       \/ /\ fs = [x \in {PathA} |-> EarlierBlob]
          /\ log = <<Event("found", PathA, 0, <<>>, EarlierBlob)>>
    /\ vault = NoFiles
    /\ vaultDir = FALSE
    /\ clock = 0
    /\ proc = [p \in Procs |-> IdleProc]
    /\ faults = MaxFaults
    /\ calls = 0
    /\ overlap = FALSE
    /\ SvcIdle
    /\ DirIdle
    /\ PvIdle

CallVersions == \E a \in VersionArgs(calls + 1) : Call(1, a, MaxCalls)

NextVersions == CallVersions \/ Steps(1)

SpecVersions == InitVersions /\ [][NextVersions]_vars

(***************************************************************************)
(* SpecPreview: one preview request for a two-cell grid (one row or one    *)
(* column) whose resized image holds any two bytes.                        *)
(***************************************************************************)
PreviewGrids == {<<2, 1>>, <<1, 2>>}

InitPreview ==
    /\ ConvIdle(0)
    /\ SvcIdle
    /\ DirIdle
    /\ grid \in PreviewGrids
    /\ pixels \in [1..(grid[1] * grid[2]) -> 0..ByteMax]
    /\ shown = NotShown

NextPreview == Preview \/ PreviewVideo

SpecPreview == InitPreview /\ [][NextPreview]_vars


(***************************************************************************)
(* Properties.                                                             *)
(***************************************************************************)
\* a complete single-image blob: a 4-byte header and cols*rows body bytes
CompleteSingle(f) ==
    /\ Len(f.hdr) = 4
    /\ BodyBytes(f.body) = UnpackLE(f.hdr, 1) * UnpackLE(f.hdr, 2)

\* a complete sequence blob: an 8-byte header and frameCount*cols*rows bytes
CompleteSeq(f) ==
    /\ Len(f.hdr) = 8
    /\ BodyBytes(f.body) = UnpackLE(f.hdr, 3) * UnpackLE(f.hdr, 1) * UnpackLE(f.hdr, 2)

Complete(f) == CompleteSingle(f) \/ CompleteSeq(f)

\* the blob a conversion with the arguments of pr is to write
ExpectedBlob(pr) ==
    IF pr.kind = "single"
    THEN [hdr |-> PackLE(<<pr.cols, pr.rows>>),
          body |-> <<[src |-> pr.src, lo |-> 1, hi |-> 1, n |-> pr.cols * pr.rows]>>]
    ELSE LET m == IF pr.nIn > U16Max THEN U16Max ELSE pr.nIn
         IN  [hdr |-> PackLE(<<pr.cols, pr.rows, m, pr.fps>>),
              body |-> IF m = 0 THEN <<>>
                       ELSE <<[src |-> pr.src, lo |-> 1, hi |-> m,
                               n |-> pr.cols * pr.rows]>>]

\* C1: when a conversion has aborted with a failure, its destination does
\* not exist or holds a complete blob (the previous one or the new one);
\* no partially written blob is left.
C1_NoPartialBlobAfterFailure ==
    \A p \in Procs :
        proc[p].pc = "failed" =>
            \/ proc[p].out \notin DOMAIN fs
            \/ Complete(fs[proc[p].out])

BackupPcs == {"bk_exists", "bk_mkdir", "bk_list", "bk_stamp", "bk_copy"}

\* C2: a failure of a backup step (makedirs, listdir, copy2) never aborts
\* the conversion: no conversion fails with an exception raised in
\* backup_blob; after such a failure the conversion is at or past opening
\* the destination, and when it completes the destination holds exactly
\* the blob its arguments call for.
C2_BackupFailureNeverAborts ==
    \A p \in Procs :
        /\ proc[p].pc = "failed" => proc[p].errAt \notin BackupPcs
        /\ proc[p].bkErr # "" =>
              proc[p].pc \in {"open", "header", "body", "frame", "done", "failed"}
        /\ proc[p].bkErr # "" /\ proc[p].pc = "done" =>
              /\ proc[p].out \in DOMAIN fs
              /\ fs[proc[p].out] = ExpectedBlob(proc[p])

\* a conversion whose backup step failed has completed
C2_Witness ==
    \E p \in Procs : proc[p].bkErr # "" /\ proc[p].pc = "done"


(************************ the history of a path ****************************)
RECURSIVE Select(_, _, _)
\* the events of kind ev for output path o, in log order
Select(events, ev, o) ==
    IF events = <<>> THEN <<>>
    ELSE IF Head(events).ev = ev /\ Head(events).out = o
         THEN <<Head(events)>> \o Select(Tail(events), ev, o)
         ELSE Select(Tail(events), ev, o)

RECURSIVE CountEv(_, _)
CountEv(events, ev) ==
    IF events = <<>> THEN 0
    ELSE (IF Head(events).ev = ev THEN 1 ELSE 0) + CountEv(Tail(events), ev)

\* no conversion is running
Quiet == \A p \in Procs : ~Active(p)

\* after N >= 1 conversions to path o: N-1 backups of o were made, the k-th
\* numbered k and named <base>_<k:03d>_<timestamp>.blob, each a file of
\* the vault
NumberedInOrder(o) ==
    LET N == Len(Select(log, "done", o))
        bks == Select(log, "backup", o)
    IN  N >= 1 =>
          /\ Len(bks) = N - 1
          /\ \A k \in 1..Len(bks) :
                /\ bks[k].num = k
                /\ \E t \in 0..MaxClock : bks[k].name = BackupName(BaseOf(o), k, t)
                /\ bks[k].name \in DOMAIN vault

\* the vault holds one file named "<base>_..." per conversion to o but the
\* first
OneFilePerOverwrite(o) ==
    Len(Select(log, "done", o)) >= 1 =>
        Cardinality(Existing(vault, BaseOf(o))) = Len(Select(log, "done", o)) - 1

\* every vault file whose name starts with "<base>_" is a backup of path o
OnlyOwnBackups(o) ==
    \A f \in Existing(vault, BaseOf(o)) :
        \E k \in 1..Len(log) :
            log[k].ev = "backup" /\ log[k].out = o /\ log[k].name = f

\* C3 as stated: N conversions to one path, one after another on writable
\* storage with the destination absent at first, leave N-1 backup files
\* of that path, numbered 001 .. N-1 in the order made.
C3_AsStated ==
    Quiet /\ ~overlap /\ CountEv(log, "fail") = 0 =>
        \A o \in Paths : NumberedInOrder(o)

\* C3 amended: the same, and these are the only vault files named
\* "<base>_...", provided the vault holds no file whose name starts with
\* "<base>_" other than the backups of these conversions.
C3_NumberedWhenVaultIsOwn ==
    Quiet /\ ~overlap /\ CountEv(log, "fail") = 0 =>
        \A o \in Paths :
            OnlyOwnBackups(o) => NumberedInOrder(o) /\ OneFilePerOverwrite(o)

\* three conversions to one path have left backups 001 and 002
C3_Witness ==
    /\ Quiet
    /\ \E o \in Paths :
          /\ Len(Select(log, "done", o)) = 3
          /\ Len(Select(log, "backup", o)) = 2
          /\ OnlyOwnBackups(o)


\* C5: when conversions run one after another, every completed backup is
\* a file of its own in the vault (never fewer files than backups); under
\* concurrency two backups can take the same name and one replaces the
\* other (C5_Witness).
C5_SequentialBackupsAllKept ==
    ~overlap => Cardinality(DOMAIN vault) >= CountEv(log, "backup")

\* two conversions that ran at the same time, to different paths with one
\* base name, listed the vault before either copied, got the same number
\* and the same second, and the vault holds fewer files than backups made
C5_Witness ==
    /\ overlap
    /\ Cardinality(DOMAIN vault) < CountEv(log, "backup")
    /\ \E j, k \in 1..Len(log) :
          /\ j < k
          /\ log[j].ev = "backup" /\ log[k].ev = "backup"
          /\ log[j].out # log[k].out
          /\ BaseOf(log[j].out) = BaseOf(log[k].out)
          /\ log[j].num = log[k].num
          /\ log[j].name = log[k].name


\* C4: the temporary directory of a request in progress is never removed
\* or emptied by the handling of another request.
C4_NoForeignRemoval == stolen = {}

\* C6: when a request's response has been processed its temporary
\* directory is gone, and once the service is idle no temporary
\* directory is left on disk.
C6_TempAlwaysReleased ==
    /\ \A t \in Threads :
          req[t].pc = "done" /\ req[t].tmp # 0 => req[t].tmp \notin DOMAIN disk
    /\ (\A t \in Threads : ~InProgress(t)) => DOMAIN disk = {}

(*************************** C7, C8, C9 ************************************)
\* C7: for cols, rows in [1, 500], a completed convert_image_to_ascii_bin
\* has written 4 + cols*rows bytes: a header of cols and rows as
\* little-endian u16, which decodes to the same cols and rows, then one
\* block of cols*rows bytes of the resized source.
C7_SingleBlobLayout ==
    \A p \in Procs :
        LET me == proc[p]
        IN  /\ me.pc = "done"
            /\ me.kind = "single"
            /\ me.cols \in 1..MaxGrid
            /\ me.rows \in 1..MaxGrid
            => /\ me.out \in DOMAIN fs
               /\ FileSize(fs[me.out]) = 4 + me.cols * me.rows
               /\ Len(fs[me.out].hdr) = 4
               /\ \A b \in 1..4 : fs[me.out].hdr[b] \in 0..255
               /\ UnpackLE(fs[me.out].hdr, 1) = me.cols
               /\ UnpackLE(fs[me.out].hdr, 2) = me.rows
               /\ fs[me.out].body =
                     <<[src |-> me.src, lo |-> 1, hi |-> 1, n |-> me.cols * me.rows]>>

\* a 500 x 257 blob has been written over an existing one
C7_Witness ==
    \E p \in Procs :
        /\ proc[p].pc = "done" /\ proc[p].kind = "single"
        /\ proc[p].cols = MaxGrid /\ proc[p].rows = 257
        /\ Len(log) = 2

\* C8: convert_sequence_to_blob given n frames does not fail because of
\* n: when it completes, the header's frameCount is min(n, 65535), the
\* body is the first min(n, 65535) frames in their order, cols*rows bytes
\* each, and the size is 8 + min(n, 65535)*cols*rows.
C8_TruncatesTo65535 ==
    \A p \in Procs :
        LET me == proc[p]
            m == IF me.nIn > U16Max THEN U16Max ELSE me.nIn
        IN  me.kind = "seq" /\ me.caller = "lib" =>
              /\ me.pc = "failed" => me.err # "struct.error"
              /\ me.pc = "done" =>
                    /\ me.out \in DOMAIN fs
                    /\ Len(fs[me.out].hdr) = 8
                    /\ UnpackLE(fs[me.out].hdr, 3) = m
                    /\ fs[me.out].body =
                          (IF m = 0 THEN <<>>
                           ELSE <<[src |-> me.src, lo |-> 1, hi |-> m,
                                   n |-> me.cols * me.rows]>>)
                    /\ FileSize(fs[me.out]) = 8 + m * me.cols * me.rows

\* a conversion given 65536 frames has completed
C8_Witness ==
    \E p \in Procs :
        /\ proc[p].pc = "done" /\ proc[p].kind = "seq"
        /\ proc[p].nIn = U16Max + 1
        /\ proc[p].cols = 3

\* the fps field of the header a completed sequence conversion wrote
HeaderFps(p) == UnpackLE(fs[proc[p].out].hdr, 4)

ThroughCaller(p) ==
    /\ proc[p].pc = "done"
    /\ proc[p].kind = "seq"
    /\ proc[p].caller \in Callers

\* C9 as stated: whatever fps the caller supplies explicitly is the fps
\* written in the header.
C9_AsStated ==
    \A p \in Procs :
        ThroughCaller(p) /\ proc[p].fpsGiven => HeaderFps(p) = proc[p].fpsArg

\* the fps used when the caller's fps does not count as supplied
FallbackFps(p) ==
    IF proc[p].caller = "cli_folder" THEN DefaultFps
    ELSE IF RoundHundredths(proc[p].srcFps) >= 1
         THEN RoundHundredths(proc[p].srcFps) ELSE 1

\* C9 amended: an explicit fps in 1..65535 is the fps written in the
\* header whatever the source rate; an explicit fps of 0 (and, through
\* the service, any fps below 1) counts as not supplied; then, and when
\* no fps is supplied, the header holds the source rate rounded to the
\* nearest integer (floor 1), or 24 for a folder.
C9_PositiveFpsOverrides ==
    \A p \in Procs :
        ThroughCaller(p) =>
          LET given == proc[p].fpsGiven
              arg == proc[p].fpsArg
          IN  /\ given /\ arg \in 1..U16Max => HeaderFps(p) = arg
              /\ ~given \/ arg = 0 \/ (proc[p].caller = "service" /\ arg < 1)
                   => HeaderFps(p) = FallbackFps(p)

\* an explicit fps of 12 has overridden a source rate of 29.97
C9_Witness ==
    \E p \in Procs :
        /\ ThroughCaller(p)
        /\ proc[p].fpsGiven /\ proc[p].fpsArg = 12 /\ proc[p].srcFps = 2997
        /\ proc[p].caller = "cli_video"
        /\ HeaderFps(p) = 12

(******************************** C10 **************************************)
\* the extension of a name: what follows its last dot, in lower case
ExtOf(name) ==
    IF LastDot(name) = 0 THEN <<>>
    ELSE Lower(SubSeq(name, LastDot(name) + 1, Len(name)))

AllowedExts == {Tail(Tail(Extensions[i])) : i \in 1..Len(Extensions)}

\* C10: the directory source returns one frame per file whose extension,
\* compared without regard to case, is png, jpg, jpeg, bmp or tiff, in
\* ascending order of file name, and fails when there is none.
C10_FolderFrames ==
    gathered.st # "idle" =>
        LET want == {n \in folder : ExtOf(n) \in AllowedExts}
        IN  IF want = {} THEN gathered.st = "exit"
            ELSE gathered.st = "returned" /\ gathered.frames = Sorted(want)

(******************************** C11 **************************************)
\* C11: the character index either preview computes for brightness v is
\* v * (rampLength - 1) / 255 in integer division with the 10-character
\* ramp, the same in the image preview and the video preview; it lies in
\* 0 .. rampLength - 1, does not decrease as brightness grows, and takes 0
\* to the first (darkest) and 255 to the last (brightest) character.
C11_RampIndex ==
    shown.st # "idle" =>
        /\ shown.st = "done"
        /\ Len(ASCII_RAMP) = 10
        /\ Len(shown.idxs) = Len(pixels)
        /\ \A k \in 1..Len(pixels) :
              /\ shown.idxs[k] = (pixels[k] * 9) \div 255
              /\ shown.idxs[k] = PreviewIdx(pixels[k])
              /\ shown.idxs[k] \in 0..(Len(ASCII_RAMP) - 1)
              /\ pixels[k] = 0 => shown.idxs[k] = 0
              /\ pixels[k] = ByteMax => shown.idxs[k] = Len(ASCII_RAMP) - 1
        /\ \A j, k \in 1..Len(pixels) :
              pixels[j] <= pixels[k] => shown.idxs[j] <= shown.idxs[k]
        /\ \A row \in 1..grid[2], col \in 1..grid[1] :
              LET k == (row - 1) * grid[1] + col
              IN  /\ shown.lines[row][col] = ASCII_RAMP[shown.idxs[k] + 1]
                  /\ pixels[k] = 0 => shown.lines[row][col] = " "
                  /\ pixels[k] = ByteMax => shown.lines[row][col] = "@"

\* the video preview has drawn a black and a white pixel side by side
C11_Witness ==
    /\ shown.st = "done"
    /\ shown.ep = "preview_video"
    /\ grid = <<2, 1>>
    /\ pixels = <<0, ByteMax>>
    /\ shown.lines = << <<" ", "@">> >>

(******************************** C12 **************************************)
\* the backups of path o and its blobs: the k-th backup is numbered k, was
\* made of the blob the k-th conversion wrote and is a vault file that
\* still holds that blob; there is never more than one backup per
\* completed conversion
KeptVersions(o) ==
    LET dones == Select(log, "done", o)
        bks == Select(log, "backup", o)
    IN  /\ Len(bks) <= Len(dones)
        /\ \A k \in 1..Len(bks) :
              /\ bks[k].num = k
              /\ bks[k].data = dones[k].data
              /\ bks[k].name \in DOMAIN vault
              /\ vault[bks[k].name] = dones[k].data

\* between conversions: one backup per conversion but the last, and the
\* destination holds the blob of the last conversion
LastVersionInPlace(o) ==
    LET dones == Select(log, "done", o)
    IN  Quiet /\ Len(dones) >= 1 =>
          /\ Len(Select(log, "backup", o)) = Len(dones) - 1
          /\ o \in DOMAIN fs
          /\ fs[o] = dones[Len(dones)].data

\* within a conversion over an earlier blob: until the destination is
\* opened it still holds that blob, and once it is open (or about to be)
\* the backup of that blob has been made
BackupBeforeOpen(p) ==
    LET o == proc[p].out
        dones == Select(log, "done", o)
        bks == Select(log, "backup", o)
    IN  Active(p) /\ Len(dones) >= 1 =>
          /\ proc[p].pc \in {"quantize", "seq_begin", "open"} \cup BackupPcs =>
                o \in DOMAIN fs /\ fs[o] = dones[Len(dones)].data
          /\ proc[p].pc \in {"open", "header", "body", "frame"} =>
                Len(bks) = Len(dones)
          /\ proc[p].pc \in {"quantize", "seq_begin", "bk_exists", "bk_mkdir",
                              "bk_list", "bk_stamp"} =>
                Len(bks) = Len(dones) - 1

VersionsKept ==
    /\ \A o \in Paths : KeptVersions(o) /\ LastVersionInPlace(o)
    /\ \A p \in Procs : BackupBeforeOpen(p)

\* C12 as stated: in any sequence of successful conversions to one path,
\* one after another from an empty vault, the backup runs once and before
\* the destination is opened, backup k holds the blob the k-th conversion
\* wrote, the destination holds the last blob, and no backup is changed
\* or removed later.
C12_AsStated ==
    CountEv(log, "fail") = 0 => VersionsKept

\* C12 amended: the same, provided the destination is absent at first and
\* no file-system call fails.
C12_VersionsKeptWhenStorageWorks ==
    CountEv(log, "fail") = 0 /\ CountEv(log, "found") = 0 /\ faults = MaxFaults =>
        VersionsKept

\* four conversions to one path have left three backups, each holding the
\* blob of the conversion of its number
C12_Witness ==
    /\ Quiet
    /\ CountEv(log, "fail") = 0 /\ CountEv(log, "found") = 0 /\ faults = MaxFaults
    /\ Len(Select(log, "done", PathA)) = 4
    /\ Len(Select(log, "backup", PathA)) = 3
    /\ \A k \in 1..3 :
          vault[Select(log, "backup", PathA)[k].name] = Select(log, "done", PathA)[k].data

====
